---- MODULE Spec2Model ----
(***************************************************************************)
(* Model of traceroute_by_routing_tables.py (and its older twin            *)
(* traceRouteByShowIPRoute.py): the routing table parser, the directory    *)
(* loader that fills ROUTERS and GLOBAL_INTERFACE_TREE, and the recursive  *)
(* path search trace_route, run as an explicit call stack.                 *)
(*                                                                         *)
(* Python values are modelled as follows.                                  *)
(*   - A string that is read piecewise (a file name, a router id, an       *)
(*     interface name) is a sequence of tokens; "+" is \o, startswith is a *)
(*     comparison of the first token, replace() drops tokens.              *)
(*   - An IPv4 address is a number of AddrBits bits; a pytricia key is the *)
(*     string ip + suffix, kept as [ip, haslen, len].                      *)
(*   - A next hop is a string that is either an interface name or an       *)
(*     address: [name, ip], with ip = NotAnIp for a name.                  *)
(*   - One record of the routing table text (the block one regular         *)
(*     expression match covers) is a record of its capture groups.         *)
(***************************************************************************)
EXTENDS Integers, Sequences, FiniteSets, TLC

VARIABLES
    listing,                \* os.listdir(rt_directory): each name, and the text
                            \* of the file when the model fixes it beforehand
    file_i,                 \* position of the for loop of do_parse_directory
    new_router,             \* result of the last parse_text_routing_table call
    new_routers,            \* dict built by do_parse_directory
    GLOBAL_INTERFACE_TREE,  \* the process-wide PyTricia
    ROUTERS,                \* the global dict set by main()
    phase,                  \* where the program is
    target_subnet,          \* the user's input of the current search
    rtr_i,                  \* position of the for loop over ROUTERS.keys()
    stack,                  \* the frames of trace_route, innermost last
    result,                 \* the value the last outermost trace_route returned
    fault,                  \* the uncaught exception that ended the program
    path_default            \* the list that is the default of trace_route's
                            \* parameter path, made once at line 190

vars == <<listing, file_i, new_router, new_routers, GLOBAL_INTERFACE_TREE,
          ROUTERS, phase, target_subnet, rtr_i, stack, result, fault,
          path_default>>

----------------------------------------------------------------------------
(* Bounds of the model. *)

\* Width of an address in bits (IPv4 has 32).
AddrBits == 2
\* Most records in one routing table text.
MaxRecords == 2
\* Most "via" lines in one static/dynamic record.
MaxVia == 2

----------------------------------------------------------------------------
(* Python values. *)

\* None where a string (a router id) is expected: no file name has this token.
None == <<"<None>">>

\* ip of a next hop string that is not a dotted address.
NotAnIp == 0 - 1

\* "not x" for a string or None.
IsFalsy(s) == s = None \/ s = <<>>

RECURSIVE SeqToSet(_)
SeqToSet(s) == IF s = <<>> THEN {} ELSE {Head(s)} \cup SeqToSet(Tail(s))

\* s.replace(tok, ''): every occurrence goes.
RECURSIVE Replace(_, _)
Replace(s, tok) ==
    IF s = <<>> THEN <<>>
    ELSE IF Head(s) = tok THEN Replace(Tail(s), tok)
    ELSE <<Head(s)>> \o Replace(Tail(s), tok)

EndsWith(s, tok) == s # <<>> /\ s[Len(s)] = tok

StartsWith(s, tok) == s # <<>> /\ s[1] = tok

\* A dict, in insertion order: a sequence of <<key, value>>.
DictKeys(d) == [i \in 1..Len(d) |-> d[i][1]]

DictHas(d, k) == \E i \in 1..Len(d) : d[i][1] = k

DictGet(d, k) == d[CHOOSE i \in 1..Len(d) : d[i][1] = k][2]

\* d[k] = v: a key already there keeps its place.
DictSet(d, k, v) ==
    IF DictHas(d, k)
    THEN [i \in 1..Len(d) |-> IF d[i][1] = k THEN <<k, v>> ELSE d[i]]
    ELSE Append(d, <<k, v>>)

----------------------------------------------------------------------------
(* pytricia.PyTricia: keys are prefixes <<network, length>>. *)

Pow2(n) == 2 ^ n

\* The first n bits of address a, the rest cleared.
NetOf(a, n) == a - (a % Pow2(AddrBits - n))

\* Number of one bits among the AddrBits bits of m.
RECURSIVE PopCount(_)
PopCount(m) == IF m = 0 THEN 0 ELSE (m % 2) + PopCount(m \div 2)

\* The prefix a key string stands for: no "/len" means a host.
KeyToPrefix(key) ==
    LET n == IF key.haslen THEN key.len ELSE AddrBits
    IN  <<NetOf(key.ip, n), n>>

EmptyTrie == [p \in {} |-> 0]

\* tree[key] = value
TrieInsert(tree, key, value) ==
    LET p == KeyToPrefix(key)
    IN  [q \in (DOMAIN tree) \cup {p} |-> IF q = p THEN value ELSE tree[q]]

\* The stored prefixes that contain the prefix a key stands for.
TrieMatches(tree, key) ==
    LET p == KeyToPrefix(key)
    IN  {q \in DOMAIN tree : q[2] <= p[2] /\ NetOf(p[1], q[2]) = q[1]}

\* key in tree
TrieContains(tree, key) == TrieMatches(tree, key) # {}

\* Mutant of TrieGet: the value at the shortest matching prefix.
TrieGet_Shortest(tree, key) ==
    LET m == TrieMatches(tree, key)
        best == CHOOSE q \in m : \A r \in m : q[2] <= r[2]
    IN  tree[best]

\* tree[key]: the value at the longest matching prefix.
TrieGet(tree, key) ==
    LET m == TrieMatches(tree, key)
        best == CHOOSE q \in m : \A r \in m : r[2] <= q[2]
    IN  tree[best]

----------------------------------------------------------------------------
(* The routing table text. *)

NoMask == [form |-> "none", val |-> 0]

\* What a record ends in: "connected" is "is directly connected, <interface>",
\* "via" is one or more "[ad/metric] via <ip>" lines, "other" is anything else.
\* routeType is the code the record starts with.
Line(routeType, ip, mask, tail, interface, vias) ==
    [routeType |-> routeType, ip |-> ip, mask |-> mask, tail |-> tail,
     interface |-> interface, vias |-> vias]

\* None where a matched route string is expected.
NoRoute == Line("", 0, NoMask, "None", <<>>, <<>>)

\* REGEXP_ROUTE_LOCAL_CONNECTED: [L|C] is a character class of L, | and C.
MatchLocalConnected(line) ==
    line.routeType \in {"L", "C", "|"} /\ line.tail = "connected"

\* REGEXP_ROUTE: any short code, then the via portion.
MatchRoute(line) == line.tail = "via" /\ Len(line.vias) >= 1

NameHop(name) == [name |-> name, ip |-> NotAnIp]

IpHop(ip) == [name |-> <<>>, ip |-> ip]

\* The "" / "/N" suffix convert_netmask_to_prefix_length returns.
convert_netmask_to_prefix_length(mask_or_pref) ==
    IF mask_or_pref.form = "none" THEN [haslen |-> FALSE, len |-> 0]
    ELSE IF mask_or_pref.form = "slash"
         THEN [haslen |-> TRUE, len |-> mask_or_pref.val]
    ELSE IF mask_or_pref.form = "dotted"
         THEN [haslen |-> TRUE, len |-> PopCount(mask_or_pref.val)]
    ELSE [haslen |-> FALSE, len |-> 0]

\* ip + suffix
Subnet(ip, mask) ==
    LET s == convert_netmask_to_prefix_length(mask)
    IN  [ip |-> ip, haslen |-> s.haslen, len |-> s.len]

\* Mutant of ParseLocalConnected: type C records join interface_list too.
RECURSIVE ParseLocalConnected_AllOwn(_, _, _, _)
ParseLocalConnected_AllOwn(raw, i, route_tree, interface_list) ==
    IF i > Len(raw)
    THEN [route_tree |-> route_tree, interface_list |-> interface_list]
    ELSE IF ~MatchLocalConnected(raw[i])
    THEN ParseLocalConnected_AllOwn(raw, i + 1, route_tree, interface_list)
    ELSE LET subnet == Subnet(raw[i].ip, raw[i].mask)
             interface == raw[i].interface
         IN  ParseLocalConnected_AllOwn(raw, i + 1,
                 TrieInsert(route_tree, subnet,
                     [next_hops |-> <<NameHop(interface)>>,
                      raw_route_string |-> raw[i]]),
                 Append(interface_list, <<interface, subnet>>))

\* First loop of parse_show_ip_route_ios_like, from record i on.
RECURSIVE ParseLocalConnected(_, _, _, _)
ParseLocalConnected(raw, i, route_tree, interface_list) ==
    IF i > Len(raw)
    THEN [route_tree |-> route_tree, interface_list |-> interface_list]
    ELSE IF ~MatchLocalConnected(raw[i])
    THEN ParseLocalConnected(raw, i + 1, route_tree, interface_list)
    ELSE LET subnet == Subnet(raw[i].ip, raw[i].mask)
             interface == raw[i].interface
             tree2 == TrieInsert(route_tree, subnet,
                          [next_hops |-> <<NameHop(interface)>>,
                           raw_route_string |-> raw[i]])
             list2 == IF raw[i].routeType = "L"
                      THEN Append(interface_list, <<interface, subnet>>)
                      ELSE interface_list
         IN  ParseLocalConnected(raw, i + 1, tree2, list2)

\* Second loop of parse_show_ip_route_ios_like, from record i on.
RECURSIVE ParseRoutes(_, _, _)
ParseRoutes(raw, i, route_tree) ==
    IF i > Len(raw) THEN route_tree
    ELSE IF ~MatchRoute(raw[i]) THEN ParseRoutes(raw, i + 1, route_tree)
    ELSE LET subnet == Subnet(raw[i].ip, raw[i].mask)
             next_hops == [k \in 1..Len(raw[i].vias) |-> IpHop(raw[i].vias[k])]
         IN  ParseRoutes(raw, i + 1,
                 TrieInsert(route_tree, subnet,
                     [next_hops |-> next_hops, raw_route_string |-> raw[i]]))

\* None where a router is expected.
NoRouter == [isNone |-> TRUE, routing_table |-> EmptyTrie, interface_list |-> <<>>]

\* Mutant of parse_show_ip_route_ios_like: the two loops in the other order.
parse_RoutesFirst(raw_routing_table) ==
    LET lc == ParseLocalConnected(raw_routing_table, 1,
                  ParseRoutes(raw_routing_table, 1, EmptyTrie), <<>>)
    IN  IF lc.interface_list = <<>> THEN NoRouter
        ELSE [isNone |-> FALSE,
              routing_table |-> lc.route_tree,
              interface_list |-> lc.interface_list]

parse_show_ip_route_ios_like(raw_routing_table) ==
    LET lc == ParseLocalConnected(raw_routing_table, 1, EmptyTrie, <<>>)
    IN  IF lc.interface_list = <<>> THEN NoRouter
        ELSE [isNone |-> FALSE,
              routing_table |-> ParseRoutes(raw_routing_table, 1, lc.route_tree),
              interface_list |-> lc.interface_list]

parse_text_routing_table(raw_routing_table) ==
    parse_show_ip_route_ios_like(raw_routing_table)

----------------------------------------------------------------------------
(* The inputs: directories of routing table files. *)

FileA == <<"A", ".txt">>

FileB == <<"B", ".txt">>

FileC == <<"C", ".txt">>

\* A file the loader passes over.
FileNotes == <<"B", ".cfg">>

Gig == <<"Gig", "abitEthernet0/1">>

\* An interface name of a Cisco ASA: none of interface_types starts it.
Inside == <<"inside">>

Slash(n) == [form |-> "slash", val |-> n]

Dotted(m) == [form |-> "dotted", val |-> m]

\* The sequences over S of 1 to n elements.
RECURSIVE SeqsUpTo(_, _)
SeqsUpTo(S, n) ==
    IF n = 0 THEN {}
    ELSE {<<x>> : x \in S}
         \cup {Append(t, x) : t \in SeqsUpTo(S, n - 1), x \in S}

\* The texts of at most n records over a set of records.
TextsOver(lines, n) == {<<>>} \cup SeqsUpTo(lines, n)

\* "L  <ip>/32 is directly connected, GigabitEthernet0/1"
LLine(ip) == Line("L", ip, NoMask, "connected", Gig, <<>>)

\* "C  <2>/1 is directly connected, <interface>"
CLine(interface) == Line("C", 2, Slash(1), "connected", interface, <<>>)

\* "S*  0.0.0.0/0 [1/0] via <ip>", with one line more for each further ip
RLine(vias) == Line("S*", 0, Slash(0), "via", <<>>, vias)

IfAddrs == {1, 2}

\* Topologies of two routers: each text declares one interface and at most
\* one route that covers the targets.
TopoTexts ==
    LET others == {CLine(Gig), CLine(Inside)}
                  \cup {RLine(v) : v \in SeqsUpTo(IfAddrs, MaxVia)}
    IN  {<<LLine(a)>> : a \in IfAddrs}
        \cup {<<x, LLine(a)>> : x \in others, a \in IfAddrs}

\* A file whose text is drawn when it is read.
AnyFile(name) == [FILENAME |-> name, known |-> FALSE, content |-> <<>>]

\* A file of a fixed text.
File(name, content) == [FILENAME |-> name, known |-> TRUE, content |-> content]

Directory(files) == [isdir |-> TRUE, files |-> files]

TopoDirectories ==
    {Directory(<<AnyFile(FileA), AnyFile(FileB)>>),
     Directory(<<AnyFile(FileB), AnyFile(FileA)>>)}

\* Topologies of three routers A, B, C of addresses 1, 2, 3. A has a default
\* route of one to MaxVia next hops among B, C and an address 0 nobody owns;
\* B and C end the search at a connected network or at no route, or route on,
\* back to A too.
FanDirectories ==
    LET a == {<<RLine(v), LLine(1)>> : v \in SeqsUpTo({0, 2, 3}, MaxVia)}
        b == {<<LLine(2)>>, <<CLine(Gig), LLine(2)>>, <<RLine(<<1>>), LLine(2)>>,
              <<RLine(<<3>>), LLine(2)>>, <<RLine(<<3, 0>>), LLine(2)>>}
        c == {<<LLine(3)>>, <<RLine(<<1>>), LLine(3)>>, <<RLine(<<2>>), LLine(3)>>}
    IN  {Directory(<<File(FileA, t), File(FileB, u), File(FileC, w)>>) :
             t \in a, u \in b, w \in c}

\* Records of every kind that meet at the prefix of address 1 and at <2>/1.
LoadLines ==
    {LLine(1),
     Line("L", 1, Dotted(3), "connected", Inside, <<>>),
     Line("C", 1, NoMask, "connected", Gig, <<>>),
     CLine(Inside),
     Line("S", 1, NoMask, "via", <<>>, <<2>>),
     RLine(<<2>>)}

LoadTexts == TextsOver(LoadLines, MaxRecords)

\* The texts of at most one record.
ShortTexts == {t \in LoadTexts : Len(t) <= 1}

\* Directories whose files have one known content each; of two router files,
\* one has a short text.
LoadDirectories ==
    {[isdir |-> FALSE, files |-> <<>>]}
    \cup {Directory(<<File(FileA, t)>>) : t \in LoadTexts}
    \cup {Directory(<<File(FileA, t), File(FileNotes, u)>>) :
              t \in LoadTexts, u \in {<<LLine(2)>>}}
    \cup {Directory(<<File(n[1], t), File(n[2], u)>>) :
              n \in {<<FileA, FileB>>, <<FileB, FileA>>},
              t \in LoadTexts, u \in ShortTexts}
    \cup {Directory(<<File(n[1], u), File(n[2], t)>>) :
              n \in {<<FileA, FileB>>, <<FileB, FileA>>},
              t \in LoadTexts, u \in ShortTexts}

\* Records in every spelling of a mask, of every type, with one and several
\* next hops, and lines no expression matches.
ParseLines ==
    {Line(ty, 1, m, "connected", Gig, <<>>) :
         ty \in {"L", "C", "|"}, m \in {NoMask, Slash(1)}}
    \cup {Line("L", 3, Dotted(2), "connected", Inside, <<>>),
          Line("S", 1, NoMask, "connected", Gig, <<>>),
          Line("", 0, NoMask, "other", <<>>, <<>>)}
    \cup {Line("O", ip, m, "via", <<>>, v) :
         ip \in {1}, m \in {NoMask, Slash(1), Dotted(2)},
         v \in SeqsUpTo({2}, MaxVia)}

ParseDirectories ==
    {Directory(<<File(FileA, t)>>) : t \in TextsOver(ParseLines, MaxRecords)}

----------------------------------------------------------------------------
(* Lookups of the path search. *)

\* (None, None) is returned for no match; next_hops is then <<>>, as falsy
\* as None is in the one test made of it.
route_lookup(destination, router) ==
    IF TrieContains(router.routing_table, destination)
    THEN TrieGet(router.routing_table, destination)
    ELSE [next_hops |-> <<>>, raw_route_string |-> NoRoute]

\* What the search tree does with a key that is no address: pytricia raises
\* ValueError, SubnetTree answers that the key is not in the tree.
InvalidKeyOutcomes == {"ValueError", "absent"}

\* The router id of the owner of an address, None without one.
get_rid_by_interface_ip(tree, interface_ip) ==
    LET key == [ip |-> interface_ip.ip, haslen |-> FALSE, len |-> 0]
    IN  IF TrieContains(tree, key) THEN TrieGet(tree, key)[1] ELSE None

interface_types ==
    {"Eth", "Fast", "Gig", "Ten", "Port", "Serial", "Vlan", "Tunn", "Loop", "Null"}

nexthop_is_local(next_hop) ==
    \E type \in interface_types : StartsWith(next_hop.name, type)

Hop(rid, route) == [rid |-> rid, route |-> route]

\* Mutant of PathRids: the loop test looks at the current router alone.
PathRids_CurrentOnly(path) == {path[Len(path)].rid}

\* [r[0] for r in path]
PathRids(path) == {path[k].rid : k \in 1..Len(path)}

LoopMark == <<"<<LOOP DETECTED">>

\* One activation of trace_route. pc is "enter" before line 197, "loop" at the
\* head of the for loop of line 206, "ret" once the return value is set.
Frame(source_router_id, path) ==
    [source_router_id |-> source_router_id, path |-> path, next_hop |-> <<>>,
     i |-> 0, paths |-> <<>>, pc |-> "enter", ret |-> <<>>]

Top == stack[Len(stack)]

SetTop(f) == [stack EXCEPT ![Len(stack)] = f]

Returning(f, value) == [f EXCEPT !.pc = "ret", !.ret = value]

----------------------------------------------------------------------------
(* do_parse_directory and main. *)

TxtExt == ".txt"

\* The for loop of line 248 from entry k on.
RECURSIVE RegisterInterfaces(_, _, _, _)
RegisterInterfaces(tree, router_id, interface_list, k) ==
    IF k > Len(interface_list) THEN tree
    ELSE RegisterInterfaces(
             TrieInsert(tree, interface_list[k][2],
                        <<router_id, interface_list[k][1]>>),
             router_id, interface_list, k + 1)

\* Mutant of Keep: the test of line 245 is missing.
Keep_NoTest(routers, tree, router_id, router) ==
    [routers |-> DictSet(routers, router_id, router),
     tree |-> RegisterInterfaces(tree, router_id, router.interface_list, 1)]

\* Lines 245-251: the dict and the tree after a file has been parsed.
Keep(routers, tree, router_id, router) ==
    IF ~router.isNone
    THEN [routers |-> DictSet(routers, router_id, router),
          tree |-> RegisterInterfaces(tree, router_id, router.interface_list, 1)]
    ELSE [routers |-> routers, tree |-> tree]

\* f.read(): the text fixed for the file, or any text of a topology.
Readable(file) == IF file.known THEN {file.content} ELSE TopoTexts

\* One turn of the for loop over the directory (lines 237-257).
ParseFile ==
    /\ phase = "load"
    /\ listing.isdir
    /\ file_i <= Len(listing.files)
    /\ LET FILENAME == listing.files[file_i].FILENAME
       IN  IF EndsWith(FILENAME, TxtExt)
           THEN \E raw_table \in Readable(listing.files[file_i]) :
                  LET router == parse_text_routing_table(raw_table)
                      router_id == Replace(FILENAME, TxtExt)
                      kept == Keep(new_routers, GLOBAL_INTERFACE_TREE,
                                   router_id, router)
                  IN  /\ new_router' = router
                      /\ new_routers' = kept.routers
                      /\ GLOBAL_INTERFACE_TREE' = kept.tree
           ELSE UNCHANGED <<new_router, new_routers, GLOBAL_INTERFACE_TREE>>
    /\ file_i' = file_i + 1
    /\ UNCHANGED <<path_default, listing, ROUTERS, phase, target_subnet, rtr_i,
                   stack, result, fault>>

\* The end of do_parse_directory (lines 229-234, 258-269) and main (321-325).
\* None and the empty dict are both <<>>: "if ROUTERS" is all that is asked.
\* The locals of do_parse_directory end with it.
FinishLoad ==
    /\ phase = "load"
    /\ ~listing.isdir \/ file_i > Len(listing.files)
    /\ ROUTERS' = new_routers
    /\ phase' = IF new_routers # <<>> THEN "prompt" ELSE "exit"
    /\ new_router' = NoRouter
    /\ new_routers' = <<>>
    /\ UNCHANGED <<path_default, listing, file_i, GLOBAL_INTERFACE_TREE,
                   target_subnet, rtr_i, stack, result, fault>>

----------------------------------------------------------------------------
(* do_user_interactive_search and trace_route. *)

NoTarget == [ip |-> 0, haslen |-> FALSE, len |-> 0]

\* The inputs REGEXP_INPUT_IPv4 lets through that are prefixes.
Targets ==
    {[ip |-> 3, haslen |-> FALSE, len |-> 0],
     [ip |-> 1, haslen |-> FALSE, len |-> 0],
     [ip |-> 2, haslen |-> TRUE, len |-> 1]}

\* Lines 283-289: a valid target is entered.
Prompt ==
    /\ phase = "prompt"
    /\ \E t \in Targets : target_subnet' = t
    /\ rtr_i' = 1
    /\ phase' = "search"
    /\ UNCHANGED <<path_default, listing, file_i, new_router, new_routers,
                   GLOBAL_INTERFACE_TREE,
                   ROUTERS, stack, result, fault>>

\* Line 292: trace_route(rtr, target_subnet), path being the default list.
StartTrace ==
    /\ phase = "search"
    /\ stack = <<>>
    /\ rtr_i <= Len(ROUTERS)
    /\ stack' = <<Frame(DictKeys(ROUTERS)[rtr_i], path_default)>>
    /\ UNCHANGED <<path_default, listing, file_i, new_router, new_routers,
                   GLOBAL_INTERFACE_TREE,
                   ROUTERS, phase, target_subnet, rtr_i, result, fault>>

\* Lines 313-318: every router has been searched from.
EndSearch ==
    /\ phase = "search"
    /\ stack = <<>>
    /\ rtr_i > Len(ROUTERS)
    /\ phase' = "prompt"
    /\ UNCHANGED <<path_default, listing, file_i, new_router, new_routers,
                   GLOBAL_INTERFACE_TREE,
                   ROUTERS, target_subnet, rtr_i, stack, result, fault>>

Crash(exception) ==
    /\ fault' = exception
    /\ phase' = "crashed"
    /\ UNCHANGED stack

\* Mutant of EnterOutcome: the guard of line 197 is missing.
EnterOutcome_NoGuard(f) ==
    IF ~DictHas(ROUTERS, f.source_router_id)
    THEN [fault |-> "KeyError", frame |-> f]
    ELSE LET current_router == DictGet(ROUTERS, f.source_router_id)
             found == route_lookup(target_subnet, current_router)
             path == f.path \o <<Hop(f.source_router_id, found.raw_route_string)>>
             g == [f EXCEPT !.path = path, !.next_hop = found.next_hops]
         IN  IF found.next_hops # <<>> /\ ~nexthop_is_local(found.next_hops[1])
             THEN [fault |-> "none", frame |-> [g EXCEPT !.pc = "loop", !.i = 1]]
             ELSE [fault |-> "none", frame |-> Returning(g, <<path>>)]

\* The frame after lines 197-205 and 215-216, or the exception raised there.
EnterOutcome(f) ==
    IF IsFalsy(f.source_router_id)
    THEN [fault |-> "none",
          frame |-> Returning(f, <<f.path \o <<Hop(None, NoRoute)>>>>)]
    ELSE IF ~DictHas(ROUTERS, f.source_router_id)
    THEN [fault |-> "KeyError", frame |-> f]
    ELSE LET current_router == DictGet(ROUTERS, f.source_router_id)
             found == route_lookup(target_subnet, current_router)
             path == f.path \o <<Hop(f.source_router_id, found.raw_route_string)>>
             g == [f EXCEPT !.path = path, !.next_hop = found.next_hops]
         IN  IF found.next_hops # <<>>
             THEN IF nexthop_is_local(found.next_hops[1])
                  THEN [fault |-> "none", frame |-> Returning(g, <<path>>)]
                  ELSE [fault |-> "none", frame |-> [g EXCEPT !.pc = "loop", !.i = 1]]
             ELSE [fault |-> "none", frame |-> Returning(g, <<path>>)]

\* Mutant of PassedIn: the hop is appended to the list passed in.
PassedIn_Appended(path, extended) == extended

\* What the list passed in as path holds after lines 198 and 201:
\* path + [...] makes a new list, extended, and leaves its operand alone.
PassedIn(path, extended) == path

\* Lines 197-205 and 215-216; the list passed in is the caller's path, or the
\* default list in the outermost activation.
TraceEnter ==
    /\ phase = "search"
    /\ stack # <<>>
    /\ Top.pc = "enter"
    /\ LET out == EnterOutcome(Top)
       IN  IF out.fault # "none"
           THEN Crash(out.fault) /\ UNCHANGED path_default
           ELSE LET extended == IF IsFalsy(Top.source_router_id)
                                THEN out.frame.ret[1]
                                ELSE out.frame.path
                    passed == PassedIn(Top.path, extended)
                IN  /\ stack' = IF Len(stack) > 1
                                THEN [SetTop(out.frame)
                                         EXCEPT ![Len(stack) - 1].path = passed]
                                ELSE SetTop(out.frame)
                    /\ path_default' = IF Len(stack) > 1 THEN path_default
                                       ELSE passed
                    /\ UNCHANGED <<phase, fault>>
    /\ UNCHANGED <<listing, file_i, new_router, new_routers,
                   GLOBAL_INTERFACE_TREE, ROUTERS, target_subnet, rtr_i, result>>

\* Mutant of NextHopOutcome: the loop branch returns the path as it is,
\* without the loop hop.
NextHopOutcome_NoLoopHop(stk, next_hop_rid) ==
    LET f == stk[Len(stk)]
    IN  IF next_hop_rid \notin PathRids(f.path)
        THEN [fault |-> "none", stack |-> Append(stk, Frame(next_hop_rid, f.path))]
        ELSE [fault |-> "none",
              stack |-> [stk EXCEPT ![Len(stk)] = Returning(f, <<f.path>>)]]

\* Lines 208-214 for the next hop that resolved to next_hop_rid: the frames after
\* them, or the exception of None + str.
NextHopOutcome(stk, next_hop_rid) ==
    LET f == stk[Len(stk)]
    IN  IF next_hop_rid \notin PathRids(f.path)
        THEN [fault |-> "none", stack |-> Append(stk, Frame(next_hop_rid, f.path))]
        ELSE IF next_hop_rid = None
        THEN [fault |-> "TypeError", stack |-> stk]
        ELSE [fault |-> "none",
              stack |-> [stk EXCEPT ![Len(stk)] =
                  Returning(f, <<f.path \o <<Hop(next_hop_rid \o LoopMark, NoRoute)>>>>)]]

\* One turn of the for loop of line 206.
TraceNextHop ==
    /\ phase = "search"
    /\ stack # <<>>
    /\ Top.pc = "loop"
    /\ Top.i <= Len(Top.next_hop)
    /\ LET nh == Top.next_hop[Top.i]
       IN  IF nh.ip = NotAnIp
           THEN \E lib \in InvalidKeyOutcomes :
                  IF lib = "ValueError"
                  THEN Crash("ValueError")
                  ELSE LET out == NextHopOutcome(stack, None)
                       IN  IF out.fault # "none"
                           THEN Crash(out.fault)
                           ELSE /\ stack' = out.stack
                                /\ UNCHANGED <<phase, fault>>
           ELSE LET out == NextHopOutcome(stack,
                               get_rid_by_interface_ip(GLOBAL_INTERFACE_TREE, nh))
                IN  IF out.fault # "none"
                    THEN Crash(out.fault)
                    ELSE /\ stack' = out.stack
                         /\ UNCHANGED <<phase, fault>>
    /\ UNCHANGED <<path_default, listing, file_i, new_router, new_routers,
                   GLOBAL_INTERFACE_TREE,
                   ROUTERS, target_subnet, rtr_i, result>>

\* Line 217: the for loop is over.
TraceLoopEnd ==
    /\ phase = "search"
    /\ stack # <<>>
    /\ Top.pc = "loop"
    /\ Top.i > Len(Top.next_hop)
    /\ stack' = SetTop(Returning(Top, Top.paths))
    /\ UNCHANGED <<path_default, listing, file_i, new_router, new_routers,
                   GLOBAL_INTERFACE_TREE,
                   ROUTERS, phase, target_subnet, rtr_i, result, fault>>

\* Mutant of Resume: the returned paths go before the collected ones.
Resume_Prepend(caller, value) ==
    [caller EXCEPT !.paths = value \o caller.paths, !.i = caller.i + 1]

\* The caller's frame once the call of line 209 has returned value (209-211).
Resume(caller, value) ==
    [caller EXCEPT !.paths = caller.paths \o value, !.i = caller.i + 1]

\* A return: into line 209 of the caller, or into line 292.
TraceReturn ==
    /\ phase = "search"
    /\ stack # <<>>
    /\ Top.pc = "ret"
    /\ IF Len(stack) > 1
       THEN /\ stack' = [SubSeq(stack, 1, Len(stack) - 1)
                            EXCEPT ![Len(stack) - 1] = Resume(stack[Len(stack) - 1], Top.ret)]
            /\ UNCHANGED <<result, rtr_i>>
       ELSE /\ stack' = <<>>
            /\ result' = Top.ret
            /\ rtr_i' = rtr_i + 1
    /\ UNCHANGED <<path_default, listing, file_i, new_router, new_routers,
                   GLOBAL_INTERFACE_TREE,
                   ROUTERS, phase, target_subnet, fault>>

\* One whole call trace_route(source_router_id, target_subnet, path) run on
\* its own from the present ROUTERS and GLOBAL_INTERFACE_TREE: the value
\* returned, or the exception raised. for_loop is the for loop of line 206 from
\* the turn f.i on. A key that is no address is answered as not in the tree.
RECURSIVE trace_route(_, _)
RECURSIVE for_loop(_)
trace_route(source_router_id, path) ==
    LET out == EnterOutcome(Frame(source_router_id, path))
    IN  IF out.fault # "none" THEN [fault |-> out.fault, value |-> <<>>]
        ELSE IF out.frame.pc = "ret"
             THEN [fault |-> "none", value |-> out.frame.ret]
             ELSE for_loop(out.frame)

for_loop(f) ==
    IF f.i > Len(f.next_hop) THEN [fault |-> "none", value |-> f.paths]
    ELSE LET nh == f.next_hop[f.i]
             next_hop_rid ==
                 IF nh.ip = NotAnIp THEN None
                 ELSE get_rid_by_interface_ip(GLOBAL_INTERFACE_TREE, nh)
             out == NextHopOutcome(<<f>>, next_hop_rid)
         IN  IF out.fault # "none" THEN [fault |-> out.fault, value |-> <<>>]
             ELSE IF Len(out.stack) = 1
                  THEN [fault |-> "none", value |-> out.stack[1].ret]
                  ELSE LET inner_path == trace_route(out.stack[2].source_router_id,
                                                     out.stack[2].path)
                       IN  IF inner_path.fault # "none" THEN inner_path
                           ELSE for_loop(Resume(f, inner_path.value))

----------------------------------------------------------------------------
(* Specifications. *)

InitWith(directories) ==
    /\ listing \in directories
    /\ file_i = 1
    /\ new_router = NoRouter
    /\ new_routers = <<>>
    /\ GLOBAL_INTERFACE_TREE = EmptyTrie
    /\ ROUTERS = <<>>
    /\ phase = "load"
    /\ target_subnet = NoTarget
    /\ rtr_i = 1
    /\ stack = <<>>
    /\ result = <<>>
    /\ fault = "none"
    /\ path_default = <<>>

Init == InitWith(TopoDirectories)

\* One listing order of the two files: the other is the same up to the names.
InitFair == InitWith({Directory(<<AnyFile(FileA), AnyFile(FileB)>>)})

InitLoad == InitWith(LoadDirectories)

InitParse == InitWith(ParseDirectories)

InitFan == InitWith(FanDirectories)

NextLoad == ParseFile \/ FinishLoad

Trace == TraceEnter \/ TraceNextHop \/ TraceLoopEnd \/ TraceReturn

Next ==
    \/ ParseFile
    \/ FinishLoad
    \/ Prompt
    \/ StartTrace
    \/ EndSearch
    \/ TraceEnter
    \/ TraceNextHop
    \/ TraceLoopEnd
    \/ TraceReturn

\* Load and search over topologies of two routers.
Spec == Init /\ [][Next]_vars

\* The same, with the interpreter never stopping inside a search.
FairSpec == InitFair /\ [][Next]_vars /\ WF_vars(StartTrace \/ Trace)

\* The load alone, over directories of known content.
SpecLoad == InitLoad /\ [][NextLoad]_vars

\* The load of one file, over texts of every kind of record.
SpecParse == InitParse /\ [][NextLoad]_vars

\* Load and search over topologies of three routers, one of them fanning out.
SpecFan == InitFan /\ [][Next]_vars

----------------------------------------------------------------------------
(* Properties of trace_route. *)

Frames == {stack[k] : k \in 1..Len(stack)}

\* The path an activation was called with.
ArgPath(f) ==
    IF f.pc = "enter" \/ IsFalsy(f.source_router_id) THEN f.path
    ELSE SubSeq(f.path, 1, Len(f.path) - 1)

\* The activation went into the for loop over its next hops.
InLoop(f) == f.i >= 1

\* The activation returned from inside the for loop, at line 214.
ReturnedFromLoop(f) == f.pc = "ret" /\ InLoop(f) /\ f.i <= Len(f.next_hop)

NoMatchHop == Hop(None, NoRoute)

LoopHop(rid) == Hop(rid \o LoopMark, NoRoute)

IsLoopHop(h) == h.rid # <<>> /\ h.rid[Len(h.rid)] = LoopMark[1]

\* The owner the resolver gives for a next hop that is an address.
Owner(nh) == get_rid_by_interface_ip(GLOBAL_INTERFACE_TREE, nh)

\* The terminal paths of every branch from router rid on, as section 4.4 of
\* the specification lists them: one for a dead end, one for a loop, and the
\* union over all next hops otherwise.
RECURSIVE AllBranchPaths(_, _)
AllBranchPaths(rid, path) ==
    IF IsFalsy(rid) \/ ~DictHas(ROUTERS, rid) THEN {path \o <<NoMatchHop>>}
    ELSE LET found == route_lookup(target_subnet, DictGet(ROUTERS, rid))
             here == path \o <<Hop(rid, found.raw_route_string)>>
             Branch(nh) ==
                 IF nh.ip = NotAnIp THEN {here \o <<NoMatchHop>>}
                 ELSE IF Owner(nh) \in PathRids(here)
                      THEN {here \o <<LoopHop(Owner(nh))>>}
                      ELSE AllBranchPaths(Owner(nh), here)
         IN  IF found.next_hops = <<>> \/ nexthop_is_local(found.next_hops[1])
             THEN {here}
             ELSE UNION {Branch(found.next_hops[k]) : k \in 1..Len(found.next_hops)}

\* C1 as claimed: what an activation of trace_route returns contains the
\* terminal paths of every next hop's branch, none dropped.
C1_EveryBranchReturned ==
    \A f \in Frames :
        f.pc = "ret" =>
            AllBranchPaths(f.source_router_id, ArgPath(f)) \subseteq SeqToSet(f.ret)


\* No branch from router rid on meets a loop.
NoLoopFrom(rid, path) ==
    \A p \in AllBranchPaths(rid, path) : ~IsLoopHop(p[Len(p)])

\* The terminal paths of the branches from router rid on in depth-first order,
\* the next hops of an entry from left to right.
RECURSIVE DfsPaths(_, _)
RECURSIVE DfsFrom(_, _, _)
DfsPaths(rid, path) ==
    IF IsFalsy(rid) \/ ~DictHas(ROUTERS, rid) THEN <<path \o <<NoMatchHop>>>>
    ELSE LET found == route_lookup(target_subnet, DictGet(ROUTERS, rid))
             here == path \o <<Hop(rid, found.raw_route_string)>>
         IN  IF found.next_hops = <<>> \/ nexthop_is_local(found.next_hops[1])
             THEN <<here>>
             ELSE DfsFrom(found.next_hops, here, 1)

DfsFrom(next_hops, here, k) ==
    IF k > Len(next_hops) THEN <<>>
    ELSE LET nh == next_hops[k]
             branch == IF nh.ip = NotAnIp THEN <<here \o <<NoMatchHop>>>>
                       ELSE IF Owner(nh) \in PathRids(here)
                            THEN <<here \o <<LoopHop(Owner(nh))>>>>
                            ELSE DfsPaths(Owner(nh), here)
         IN  branch \o DfsFrom(next_hops, here, k + 1)

\* The search from router rid ends there, at a local interface.
EndsLocally(rid) ==
    /\ DictHas(ROUTERS, rid)
    /\ LET found == route_lookup(target_subnet, DictGet(ROUTERS, rid))
       IN  found.next_hops # <<>> /\ nexthop_is_local(found.next_hops[1])

\* The activation fans out to two distinct routers off its path that both end
\* the search locally.
FansOutInTwo(f) ==
    /\ ~IsFalsy(f.source_router_id)
    /\ Len(f.next_hop) = 2
    /\ \A k \in 1..2 :
           /\ f.next_hop[k].ip # NotAnIp
           /\ Owner(f.next_hop[k]) \notin PathRids(f.path)
           /\ EndsLocally(Owner(f.next_hop[k]))
    /\ Owner(f.next_hop[1]) # Owner(f.next_hop[2])

\* C11: where no branch meets a loop, an activation returns one path for each
\* terminal branch, in depth-first order and the next hops of an entry from
\* left to right; an entry of two next hops owned by two distinct routers that
\* both end locally gives exactly two paths, each the path up to the fan-out
\* router and then the hop of one of the two, in the order of the next hops.
C11_DepthFirstOrder ==
    \A f \in Frames :
        f.pc = "ret" =>
            /\ NoLoopFrom(f.source_router_id, ArgPath(f)) =>
                   f.ret = DfsPaths(f.source_router_id, ArgPath(f))
            /\ FansOutInTwo(f) =>
                   /\ Len(f.ret) = 2
                   /\ \A k \in 1..2 :
                          /\ Len(f.ret[k]) = Len(f.path) + 1
                          /\ SubSeq(f.ret[k], 1, Len(f.path)) = f.path
                          /\ f.ret[k][Len(f.path) + 1].rid = Owner(f.next_hop[k])

\* The outermost activation returned two paths from a fan-out to two routers,
\* the first next hop's first.
C11_Witness ==
    /\ Len(stack) = 1
    /\ Top.pc = "ret"
    /\ FansOutInTwo(Top)
    /\ NoLoopFrom(Top.source_router_id, <<>>)
    /\ Len(Top.ret) = 2
    /\ Top.ret[1] # Top.ret[2]

\* The query phase: the prompt and the searches.
InQuery == phase \in {"prompt", "search"}

\* The activations of the next state that were there, and had passed their
\* path on or do so in this step, keep that path.
PassedPathsKept ==
    \A k \in 1..Len(stack) :
        (k <= Len(stack') /\ (k < Len(stack) \/ Len(stack') > Len(stack)))
            => stack'[k].path = stack[k].path

C12_FrameKept ==
    InQuery =>
        /\ ROUTERS' = ROUTERS
        /\ GLOBAL_INTERFACE_TREE' = GLOBAL_INTERFACE_TREE
        /\ path_default' = path_default
        /\ PassedPathsKept

\* What the outermost activation returns is what the call returns when run
\* on its own with an empty path.
C12_SameResult ==
    /\ path_default = <<>>
    /\ (Len(stack) = 1 /\ Top.pc = "ret") =>
           Top.ret = trace_route(Top.source_router_id, <<>>).value

RouterHops(path) ==
    IF path # <<>> /\ (IsLoopHop(path[Len(path)]) \/ path[Len(path)] = NoMatchHop)
    THEN SubSeq(path, 1, Len(path) - 1)
    ELSE path

NoRepeat(path) ==
    \A j, k \in 1..Len(path) : j # k => path[j].rid # path[k].rid

\* Every path there is: under construction, collected, returned.
PathsOf(f) == {f.path} \cup SeqToSet(f.paths) \cup SeqToSet(f.ret)

AllPaths == SeqToSet(result) \cup UNION {PathsOf(f) : f \in Frames}

RegisteredRids == {ROUTERS[k][1] : k \in 1..Len(ROUTERS)}

C2_NoRepeatBoundedDepth ==
    /\ \A p \in AllPaths : NoRepeat(RouterHops(p))
    /\ \A p \in AllPaths : Len(p) <= Cardinality(RegisteredRids) + 1
    /\ Len(stack) <= Cardinality(RegisteredRids) + 1

\* C2: no router id appears twice among the router hops of a path, the
\* recursion is never deeper than the number of routers plus one, and every
\* search that starts comes to its end.
C2_Terminates ==
    /\ []C2_NoRepeatBoundedDepth
    /\ (stack # <<>>) ~> (stack = <<>> \/ phase = "crashed")

\* A search two activations deep ends on a loop.
C2_Witness ==
    /\ Len(stack) = 2
    /\ Top.pc = "ret"
    /\ \E p \in SeqToSet(Top.ret) : IsLoopHop(p[Len(p)])

\* C3: a next hop whose owner is already in the path is not searched from: no
\* activation is called with a router id of its caller's path, and the
\* activation that met the loop returns the one path that is its own path and
\* a loop hop of that owner, who is in the path once.
C3_LoopEndsBranch ==
    /\ \A k \in 1..(Len(stack) - 1) :
           stack[k + 1].source_router_id \notin PathRids(stack[k].path)
    /\ \A f \in Frames :
           /\ f.pc = "loop" /\ f.i <= Len(f.next_hop)
                 => \A k \in 1..(f.i - 1) :
                        f.next_hop[k].ip # NotAnIp
                            => Owner(f.next_hop[k]) \notin PathRids(f.path)
           /\ ReturnedFromLoop(f) =>
                 LET rid == Owner(f.next_hop[f.i])
                 IN  /\ f.next_hop[f.i].ip # NotAnIp
                     /\ rid # None
                     /\ Cardinality({k \in 1..Len(f.path) : f.path[k].rid = rid}) = 1
                     /\ f.ret = <<f.path \o <<Hop(rid \o LoopMark, NoRoute)>>>>

\* A -> B -> A: the search from one router has come back to it through the
\* other and returns the path of both and the loop hop.
C3_Witness ==
    /\ Len(stack) = 2
    /\ ReturnedFromLoop(Top)
    /\ Len(Top.path) = 2
    /\ Owner(Top.next_hop[Top.i]) = Top.path[1].rid

\* C4: an activation for a next hop without owner returns the one path that is
\* its caller's path and a no-match hop, looks nothing up, and raises nothing;
\* its caller collects that path.
C4_UnresolvedNextHop ==
    /\ fault \notin {"KeyError", "TypeError"}
    /\ \A k \in 2..Len(stack) :
           stack[k].source_router_id = None =>
               /\ stack[k].path = stack[k - 1].path
               /\ stack[k].next_hop = <<>>
               /\ stack[k].pc \in {"enter", "ret"}
               /\ stack[k].pc = "ret"
                      => stack[k].ret = <<stack[k - 1].path \o <<Hop(None, NoRoute)>>>>
    /\ \A f \in Frames :
           \A k \in 1..Len(f.next_hop) :
               (f.next_hop[k].ip # NotAnIp /\ Owner(f.next_hop[k]) = None) =>
                   /\ (f.pc = "loop" /\ k < f.i)
                          => (f.path \o <<Hop(None, NoRoute)>>) \in SeqToSet(f.paths)
                   /\ (f.pc = "ret" /\ Len(f.next_hop) = 1)
                          => f.ret = <<f.path \o <<Hop(None, NoRoute)>>>>

\* The caller has collected the no-match path of a next hop without owner.
C4_Witness ==
    \E f \in Frames :
        /\ f.pc = "loop"
        /\ f.i = 2
        /\ f.next_hop[1].ip # NotAnIp
        /\ Owner(f.next_hop[1]) = None
        /\ f.paths = <<f.path \o <<Hop(None, NoRoute)>>>>

\* C8 as claimed: no search ends in an exception, and the resolver is never
\* asked for a next hop that is no address.
C8_NoFault ==
    /\ fault = "none"
    /\ \A f \in Frames :
           (f.pc = "loop" /\ f.i <= Len(f.next_hop)) => f.next_hop[f.i].ip # NotAnIp

\* The interface name prefixes the claim lists.
LocalNamePrefixes ==
    {"Eth", "Fast", "Gig", "Ten", "Port", "Serial", "Vlan", "Tunn", "Loop", "Null"}

\* The entry of the longest prefix of a table that contains the target.
LongestMatch(table, target) ==
    LET t == KeyToPrefix(target)
        m == {q \in DOMAIN table : q[2] <= t[2] /\ NetOf(t[1], q[2]) = q[1]}
    IN  IF m = {} THEN <<>>
        ELSE <<table[CHOOSE q \in m : \A r \in m : r[2] <= q[2]]>>

\* C9: past its entry, an activation whose longest match starts with a local
\* interface name has returned the one path of its argument and the hop of its
\* router and the matched route, without the loop over next hops; one without
\* any match the same with no route.
C9_LocalOrNoMatch ==
    \A f \in Frames :
        (f.pc # "enter" /\ ~IsFalsy(f.source_router_id)) =>
            LET m == LongestMatch(
                         DictGet(ROUTERS, f.source_router_id).routing_table,
                         target_subnet)
                local == /\ m # <<>>
                         /\ m[1].next_hops[1].name # <<>>
                         /\ m[1].next_hops[1].name[1] \in LocalNamePrefixes
                route == IF m = <<>> THEN NoRoute ELSE m[1].raw_route_string
            IN  (m = <<>> \/ local) =>
                    /\ f.pc = "ret"
                    /\ ~InLoop(f)
                    /\ f.paths = <<>>
                    /\ f.ret = <<ArgPath(f) \o <<Hop(f.source_router_id, route)>>>>

\* An activation called from another has returned at a local interface though
\* a shorter prefix with next hops matches as well.
C9_Witness ==
    /\ Len(stack) = 2
    /\ Top.pc = "ret"
    /\ Top.next_hop # <<>>
    /\ nexthop_is_local(Top.next_hop[1])
    /\ Cardinality(TrieMatches(DictGet(ROUTERS, Top.source_router_id).routing_table,
                               target_subnet)) = 2

\* A search from a router without any route to the target has returned.
C9_WitnessNoMatch ==
    /\ Len(stack) = 1
    /\ Top.pc = "ret"
    /\ Top.ret = <<<<Hop(Top.source_router_id, NoRoute)>>>>

----------------------------------------------------------------------------
(* Properties of the parser and the loader, over directories of known texts. *)

\* The text of the k-th file of the directory.
Text(k) == listing.files[k].content

\* The files the loop has been through.
Done == {k \in 1..Len(listing.files) : k < file_i}

IsUnit(k) == EndsWith(listing.files[k].FILENAME, TxtExt)

UnitRid(k) == Replace(listing.files[k].FILENAME, TxtExt)

\* The text has a record of type L or C.
HasLocalOrConnected(text) ==
    \E i \in 1..Len(text) :
        text[i].tail = "connected" /\ text[i].routeType \in {"L", "C"}

\* The one file of the directory has just been parsed.
Parsed == phase = "load" /\ file_i = 2 /\ IsUnit(1)

\* C5 as claimed: the parser returns None exactly for a text without any
\* record of type L or C.
C5_FailsIffNoLocalOrConnected ==
    Parsed => (new_router.isNone <=> ~HasLocalOrConnected(Text(1)))

\* The prefix a record declares.
RecordPrefix(line) == KeyToPrefix(Subnet(line.ip, line.mask))

IsRecord(line) == MatchLocalConnected(line) \/ MatchRoute(line)

\* The records of a text at prefix p, by position: all, those the second
\* expression finds (static and dynamic), those the first finds (local and
\* connected).
RecordsAt(text, p) ==
    {i \in 1..Len(text) : IsRecord(text[i]) /\ RecordPrefix(text[i]) = p}

RouteRecordsAt(text, p) ==
    {i \in RecordsAt(text, p) : MatchRoute(text[i])}

LocalRecordsAt(text, p) ==
    {i \in RecordsAt(text, p) : MatchLocalConnected(text[i])}

Last(S) == CHOOSE i \in S : \A j \in S : j <= i

Registry == IF phase = "load" THEN new_routers ELSE ROUTERS

\* The units gone through whose parse succeeded.
Succeeded == {k \in Done : IsUnit(k) /\ ~parse_text_routing_table(Text(k)).isNone}

Failed == {k \in Done : IsUnit(k) /\ parse_text_routing_table(Text(k)).isNone}

\* C6: a failed unit does not end the load; the registry holds the units that
\* parsed, each with what the parser gave, and no others; the resolver names
\* only these; and the query phase is entered exactly when one has parsed.
C6_FailedUnitsSkipped ==
    /\ phase # "load" => (~listing.isdir \/ file_i > Len(listing.files))
    /\ {Registry[j][1] : j \in 1..Len(Registry)} = {UnitRid(k) : k \in Succeeded}
    /\ Len(Registry) = Cardinality({UnitRid(k) : k \in Succeeded})
    /\ \A k \in Succeeded :
           (\A k2 \in Succeeded : UnitRid(k2) = UnitRid(k) => k2 <= k)
               => DictGet(Registry, UnitRid(k)) = parse_text_routing_table(Text(k))
    /\ \A p \in DOMAIN GLOBAL_INTERFACE_TREE :
           GLOBAL_INTERFACE_TREE[p][1] \in {UnitRid(k) : k \in Succeeded}
    /\ phase # "load" => (phase = "prompt" <=> Succeeded # {})
    /\ phase \in {"load", "prompt", "exit"}

\* The first unit failed, the second parsed, and the query phase is entered
\* with the second alone.
C6_Witness ==
    /\ phase = "prompt"
    /\ Failed = {1}
    /\ Succeeded = {2}
    /\ Len(ROUTERS) = 1

\* The type L records of the units that parsed, as <<unit, record>>.
Declarations ==
    {<<k, i>> \in Succeeded \X (1..MaxRecords + 1) :
        /\ i <= Len(Text(k))
        /\ Text(k)[i].tail = "connected"
        /\ Text(k)[i].routeType = "L"}

DeclaredAt(p) == {d \in Declarations : RecordPrefix(Text(d[1])[d[2]]) = p}

\* The declaration made last: of the last unit, and last in its text.
LastDeclared(S) ==
    CHOOSE d \in S : \A e \in S : e[1] < d[1] \/ (e[1] = d[1] /\ e[2] <= d[2])

\* C10: the resolver holds the prefixes the type L records of the parsed units
\* declare and no others, each with the router id and the interface name of
\* the record that declared it last.
C10_LastLocalRecordOwns ==
    /\ DOMAIN GLOBAL_INTERFACE_TREE =
           {RecordPrefix(Text(d[1])[d[2]]) : d \in Declarations}
    /\ \A p \in DOMAIN GLOBAL_INTERFACE_TREE :
           LET d == LastDeclared(DeclaredAt(p))
           IN  GLOBAL_INTERFACE_TREE[p] = <<UnitRid(d[1]), Text(d[1])[d[2]].interface>>

\* Two routers have declared one prefix in type L records and the second owns
\* it, while a prefix the second has in a type C record has no owner.
C10_Witness ==
    /\ phase = "prompt"
    /\ Succeeded = {1, 2}
    /\ \E p \in DOMAIN GLOBAL_INTERFACE_TREE :
           /\ \E d \in DeclaredAt(p) : d[1] = 1
           /\ \E d \in DeclaredAt(p) : d[1] = 2
           /\ GLOBAL_INTERFACE_TREE[p][1] = UnitRid(2)
    /\ \E i \in 1..Len(Text(2)) :
           /\ Text(2)[i].routeType = "C"
           /\ RecordPrefix(Text(2)[i]) \in DOMAIN DictGet(ROUTERS, UnitRid(2)).routing_table
           /\ RecordPrefix(Text(2)[i]) \notin DOMAIN GLOBAL_INTERFACE_TREE

====
